---- MODULE Spec2Model ----
(***************************************************************************)
(* A model of scripts/fetch_notion_article.py: NotionArticleFetcher, which *)
(* fetches a Notion page, renders its block tree to Markdown and downloads *)
(* the images it references.                                               *)
(*                                                                         *)
(* Python strings are TLA+ strings (TLC evaluates \o, Len and SubSeq on    *)
(* them).  Python's None and the empty string are both the empty string    *)
(* wherever the code only tests truthiness.                                *)
(***************************************************************************)
EXTENDS Integers, Sequences, FiniteSets, TLC

VARIABLES
    requests,       \* the caller's pending fetch_by_page_id calls (pages to convert)
    pc,             \* position of the fetcher inside _process_page
    page,           \* the page being converted (metadata and remote block tree)
    images,         \* self.images: a reference to a list object of heap
    heap,           \* the list objects ever bound to self.images
    image_counter,  \* self.image_counter
    title,          \* local title of _process_page
    cover_image,    \* local cover_image of _process_page ("" is None)
    stack,          \* activation records of _blocks_to_markdown, innermost last
    body,           \* the value returned by the outermost _blocks_to_markdown
    files,          \* the files written under output_dir: path -> content
    docs,           \* the dicts returned by _process_page, oldest first
    trace,          \* the I/O of the current conversion, in the order it happened
    unit,           \* a pure method under test: its argument and its result
    lister          \* an activation of _get_all_blocks against an arbitrary server

convVars == <<requests, pc, page, images, heap, image_counter, title,
              cover_image, stack, body, files, docs, trace>>
vars == <<requests, pc, page, images, heap, image_counter, title,
          cover_image, stack, body, files, docs, trace, unit, lister>>

----------------------------------------------------------------------------
(* Bounds of the model *)

\* blocks in a page's tree
MaxBlocks == 3
\* blocks the remote returns per listing request
PageSize == 2
\* children of a table in the table renderer's input
MaxRows == 3
\* cells of a table row
MaxCells == 2
\* conversions run on one fetcher object
MaxConversions == 2
\* blocks of a page converted in a multi-conversion session
MaxSessionBlocks == 1
\* listing requests of one _get_all_blocks activation
MaxRequests == 3

----------------------------------------------------------------------------
(* Python str methods *)

\* s[i-1:].startswith(p), i counted from 1
StartsWithAt(s, p, i) ==
    /\ i >= 1
    /\ i + Len(p) - 1 <= Len(s)
    /\ SubSeq(s, i, i + Len(p) - 1) = p

\* s.find(p) + 1: the first position of p in s, 0 when absent
Find(s, p) ==
    LET hits == {i \in 1..(Len(s) - Len(p) + 1) : StartsWithAt(s, p, i)}
    IN  IF hits = {} THEN 0 ELSE CHOOSE i \in hits : \A j \in hits : i <= j

\* p in s
Contains(s, p) == Find(s, p) # 0

\* the number of positions of s at which p occurs
Occurrences(s, p) ==
    Cardinality({i \in 1..(Len(s) - Len(p) + 1) : StartsWithAt(s, p, i)})

\* s.replace(old, new, 1), old non-empty
ReplaceFirst(s, old, new) ==
    LET i == Find(s, old)
    IN  IF i = 0 THEN s
        ELSE SubSeq(s, 1, i - 1) \o new \o SubSeq(s, i + Len(old), Len(s))

RECURSIVE ReplaceAll(_, _, _)
\* s.replace(old, new), old non-empty
ReplaceAll(s, old, new) ==
    LET i == Find(s, old)
    IN  IF i = 0 THEN s
        ELSE SubSeq(s, 1, i - 1) \o new
             \o ReplaceAll(SubSeq(s, i + Len(old), Len(s)), old, new)

RECURSIVE Join(_, _)
\* sep.join(parts)
Join(parts, sep) ==
    IF parts = <<>> THEN ""
    ELSE IF Len(parts) = 1 THEN parts[1]
    ELSE parts[1] \o sep \o Join(Tail(parts), sep)

RECURSIVE Repeat(_, _)
\* s * n
Repeat(s, n) == IF n <= 0 THEN "" ELSE s \o Repeat(s, n - 1)

\* s.strip() is empty
IsBlank(s) == \A i \in 1..Len(s) : SubSeq(s, i, i) \in {" ", "\t", "\n", "\r"}

\* s.split(sep)[0]
BeforeFirst(s, sep) ==
    LET i == Find(s, sep) IN IF i = 0 THEN s ELSE SubSeq(s, 1, i - 1)

\* the last position of the one-character string c in s, 0 when absent
LastIndex(s, c) ==
    LET hits == {i \in 1..Len(s) : SubSeq(s, i, i) = c}
    IN  IF hits = {} THEN 0 ELSE CHOOSE i \in hits : \A j \in hits : j <= i

\* c.lower() for a one-character string
LowerChar(c) ==
    LET up == "ABCDEFGHIJKLMNOPQRSTUVWXYZ"
        lo == "abcdefghijklmnopqrstuvwxyz"
        i  == Find(up, c)
    IN  IF i = 0 THEN c ELSE SubSeq(lo, i, i)

RECURSIVE Lower(_)
\* s.lower()
Lower(s) == IF s = "" THEN "" ELSE LowerChar(SubSeq(s, 1, 1)) \o Lower(Tail(s))

\* os.path.splitext(p)[1]: from the last dot of the last path component, unless
\* only dots precede it in that component
SplitExt(p) ==
    LET sep     == LastIndex(p, "/")
        dot     == LastIndex(p, ".")
        leading == \A i \in (sep + 1)..(dot - 1) : SubSeq(p, i, i) = "."
    IN  IF dot > sep /\ ~leading THEN SubSeq(p, dot, Len(p)) ELSE ""

\* The grave accent of Markdown's code spans and fences: SANY's lexer takes no
\* grave accent inside a string, so the circumflex stands for it throughout.
BACKTICK == "^"

\* f"{n:03d}"
Pad3(n) == Repeat("0", 3 - Len(ToString(n))) \o ToString(n)

----------------------------------------------------------------------------
(* Inline text *)

\* _extract_plain_text
RECURSIVE _extract_plain_text(_)
_extract_plain_text(rich_text) ==
    IF rich_text = <<>> THEN ""
    ELSE rich_text[1].plain_text \o _extract_plain_text(Tail(rich_text))

\* the mutant of RichItem: the link is applied before the inline-code wrapper
RichItemLinkFirst(item) ==
    LET t0 == item.plain_text
        t1 == IF item.annotations.bold THEN "**" \o t0 \o "**" ELSE t0
        t2 == IF item.annotations.italic THEN "*" \o t1 \o "*" ELSE t1
        t3 == IF item.annotations.strikethrough THEN "~~" \o t2 \o "~~" ELSE t2
        t4 == IF item.annotations.underline THEN "<u>" \o t3 \o "</u>" ELSE t3
        t5 == IF item.href # "" THEN "[" \o t4 \o "](" \o item.href \o ")" ELSE t4
        t6 == IF item.annotations.code THEN BACKTICK \o t5 \o BACKTICK ELSE t5
    IN  IF item.type = "equation"
        THEN IF ~IsBlank(item.expression) THEN "$" \o item.expression \o "$" ELSE ""
        ELSE IF t0 = "" THEN "" ELSE t6

\* the body of the loop of _rich_text_to_markdown: what one item appends
RichItem(item) ==
    LET t0 == item.plain_text
        t1 == IF item.annotations.bold THEN "**" \o t0 \o "**" ELSE t0
        t2 == IF item.annotations.italic THEN "*" \o t1 \o "*" ELSE t1
        t3 == IF item.annotations.strikethrough THEN "~~" \o t2 \o "~~" ELSE t2
        t4 == IF item.annotations.underline THEN "<u>" \o t3 \o "</u>" ELSE t3
        t5 == IF item.annotations.code THEN BACKTICK \o t4 \o BACKTICK ELSE t4
        t6 == IF item.href # "" THEN "[" \o t5 \o "](" \o item.href \o ")" ELSE t5
    IN  IF item.type = "equation"
        THEN IF ~IsBlank(item.expression) THEN "$" \o item.expression \o "$" ELSE ""
        ELSE IF t0 = "" THEN "" ELSE t6

RECURSIVE _rich_text_to_markdown(_)
_rich_text_to_markdown(rich_text) ==
    IF rich_text = <<>> THEN ""
    ELSE RichItem(rich_text[1]) \o _rich_text_to_markdown(Tail(rich_text))

NoAnnotations ==
    [bold |-> FALSE, italic |-> FALSE, strikethrough |-> FALSE,
     underline |-> FALSE, code |-> FALSE]

\* a rich-text item of type "text" without annotations or link
PlainSpan(text) ==
    [type |-> "text", plain_text |-> text, annotations |-> NoAnnotations,
     href |-> "", expression |-> ""]

\* the rich_text array holding text as one plain span (empty for no text)
Plain(text) == IF text = "" THEN <<>> ELSE <<PlainSpan(text)>>

----------------------------------------------------------------------------
(* The remote: pages, their block trees and the paginated children listing *)

\* output_dir as the caller passes it
OutputDir == "out"

\* images_dir of _process_page, as str() prints it
ImagesDir == OutputDir \o "/images"

\* The payloads block trees are built from.  The text of a block names the block
\* (its id), so that each block's line can be told apart in the output.
Payload(kind, id) ==
    CASE kind = "h1_empty" ->
           [type |-> "heading_1", data |-> [rich_text |-> <<>>]]
      [] kind = "para" ->
           [type |-> "paragraph", data |-> [rich_text |-> Plain("p" \o ToString(id))]]
      [] kind = "img" ->
           [type |-> "image",
            data |-> [type |-> "external",
                      external_url |-> "http://x/" \o ToString(id) \o ".PNG?v=1",
                      file_url |-> "", caption |-> <<>>]]
      [] kind = "img_file" ->
           [type |-> "image",
            data |-> [type |-> "file", external_url |-> "",
                      file_url |-> "http://s3.amazonaws.com/" \o ToString(id),
                      caption |-> Plain("c" \o ToString(id))]]
      [] kind = "img_nourl" ->
           [type |-> "image",
            data |-> [type |-> "external", external_url |-> "", file_url |-> "",
                      caption |-> <<>>]]
      [] kind = "bullet" ->
           [type |-> "bulleted_list_item",
            data |-> [rich_text |-> Plain("b" \o ToString(id))]]
      [] kind = "numbered" ->
           [type |-> "numbered_list_item",
            data |-> [rich_text |-> Plain("n" \o ToString(id))]]
      [] kind = "todo" ->
           [type |-> "to_do",
            data |-> [rich_text |-> Plain("Ship it"), checked |-> TRUE]]
      [] kind = "quote" ->
           [type |-> "quote", data |-> [rich_text |-> Plain("q" \o ToString(id))]]
      [] kind = "toggle" ->
           [type |-> "toggle", data |-> [rich_text |-> Plain("t" \o ToString(id))]]

\* The block of node id of a page's tree.  A tree is a sequence of nodes
\* [parent, kind]; node i is the block with id i, and parent 0 is the page.
BlockOf(pg, id) ==
    [id           |-> id,
     type         |-> Payload(pg.tree[id].kind, id).type,
     has_children |-> \E j \in 1..Len(pg.tree) : pg.tree[j].parent = id,
     data         |-> Payload(pg.tree[id].kind, id).data]

RECURSIVE ChildIdsFrom(_, _, _)
\* the ids of the children of block_id among nodes i.., in source order
ChildIdsFrom(pg, block_id, i) ==
    IF i > Len(pg.tree) THEN <<>>
    ELSE (IF pg.tree[i].parent = block_id THEN <<i>> ELSE <<>>)
         \o ChildIdsFrom(pg, block_id, i + 1)

\* the children of block_id (0: the page) as the remote holds them
RemoteChildren(pg, block_id) ==
    LET ids == ChildIdsFrom(pg, block_id, 1)
    IN  [k \in 1..Len(ids) |-> BlockOf(pg, ids[k])]

\* client.blocks.children.list(block_id, start_cursor): one page of at most
\* PageSize children.  A cursor is the position of the next child; 0 is None.
ListChildren(pg, block_id, start_cursor) ==
    LET all   == RemoteChildren(pg, block_id)
        first == IF start_cursor = 0 THEN 1 ELSE start_cursor
        last  == IF first + PageSize - 1 < Len(all)
                 THEN first + PageSize - 1 ELSE Len(all)
    IN  [results     |-> SubSeq(all, first, last),
         has_more    |-> last < Len(all),
         next_cursor |-> IF last < Len(all) THEN last + 1 ELSE 0]

\* the mutant of ListStep: the loop stops on the first response and keeps its
\* start cursor
ListStepOnce(st, response) ==
    [blocks |-> st.blocks \o response.results,
     cursor |-> st.cursor,
     done   |-> TRUE]

\* One iteration of the loop of _get_all_blocks on a response: extend, then
\* break unless has_more, else take next_cursor.
ListStep(st, response) ==
    [blocks |-> st.blocks \o response.results,
     cursor |-> IF response.has_more THEN response.next_cursor ELSE st.cursor,
     done   |-> ~response.has_more]

RECURSIVE ListLoop(_, _, _)
\* the loop of _get_all_blocks against the remote of pg
ListLoop(pg, block_id, st) ==
    LET next == ListStep(st, ListChildren(pg, block_id, st.cursor))
    IN  IF next.done THEN next.blocks ELSE ListLoop(pg, block_id, next)

_get_all_blocks(pg, block_id) ==
    ListLoop(pg, block_id, [blocks |-> <<>>, cursor |-> 0, done |-> FALSE])

----------------------------------------------------------------------------
(* Images *)

_get_image_url(image_obj) ==
    IF image_obj.type = "external" THEN image_obj.external_url
    ELSE IF image_obj.type = "file" THEN image_obj.file_url
    ELSE ""

_get_extension(url) ==
    LET clean_url == BeforeFirst(url, "?")
        ext       == Lower(SplitExt(clean_url))
    IN  IF Contains(clean_url, ".")
           /\ ext \in {".jpg", ".jpeg", ".png", ".gif", ".webp", ".svg"}
        THEN ext
        ELSE IF Contains(url, "amazonaws.com") \/ Contains(url, "notion")
        THEN ".png"
        ELSE ".jpg"

\* _download_image(url, local_path) when the fetch and the write end as ok says:
\* the value returned and the I/O done
_download_image(id, url, local_path, ok) ==
    [ok |-> ok,
     io |-> <<[op |-> "download", id |-> id, url |-> url, path |-> local_path,
               ok |-> ok]>>]

\* what rendering one block did besides returning md: the new image counter, the
\* records appended to self.images and the I/O, in order
Effect(md, counter, appended, io) ==
    [md |-> md, counter |-> counter, appended |-> appended, io |-> io]

\* the mutant of _image_block_to_markdown: the counter is taken only once the
\* download has succeeded
ImageCountOnSuccess(id, image_block, images_dir, counter, ok) ==
    LET url        == _get_image_url(image_block)
        local_path == images_dir \o "/image_" \o Pad3(counter + 1) \o _get_extension(url)
        got        == _download_image(id, url, local_path, ok)
        caption    == _extract_plain_text(image_block.caption)
    IN  IF url = "" THEN Effect("", counter, <<>>, <<>>)
        ELSE IF got.ok
        THEN Effect("![" \o caption \o "](" \o local_path \o ")", counter + 1,
                    <<[original_url |-> url, local_path |-> local_path,
                       type |-> image_block.type]>>, got.io)
        ELSE Effect("![" \o caption \o "](" \o url \o ")", counter, <<>>, got.io)

\* the mutant of _image_block_to_markdown: a failed download is recorded in
\* self.images like a successful one
ImageLedgerOnFailure(id, image_block, images_dir, counter, ok) ==
    LET url        == _get_image_url(image_block)
        local_path == images_dir \o "/image_" \o Pad3(counter + 1) \o _get_extension(url)
        got        == _download_image(id, url, local_path, ok)
        caption    == _extract_plain_text(image_block.caption)
    IN  IF url = "" THEN Effect("", counter, <<>>, <<>>)
        ELSE Effect("![" \o caption \o "](" \o (IF got.ok THEN local_path ELSE url) \o ")",
                    counter + 1,
                    <<[original_url |-> url, local_path |-> local_path,
                       type |-> image_block.type]>>, got.io)

\* the mutant of _image_block_to_markdown: the file name is made before the
\* counter is incremented
ImageNameBeforeIncrement(id, image_block, images_dir, counter, ok) ==
    LET url        == _get_image_url(image_block)
        local_path == images_dir \o "/image_" \o Pad3(counter) \o _get_extension(url)
        got        == _download_image(id, url, local_path, ok)
        caption    == _extract_plain_text(image_block.caption)
    IN  IF url = "" THEN Effect("", counter, <<>>, <<>>)
        ELSE IF got.ok
        THEN Effect("![" \o caption \o "](" \o local_path \o ")", counter + 1,
                    <<[original_url |-> url, local_path |-> local_path,
                       type |-> image_block.type]>>, got.io)
        ELSE Effect("![" \o caption \o "](" \o url \o ")", counter + 1, <<>>, got.io)

_image_block_to_markdown(id, image_block, images_dir, counter, ok) ==
    LET url        == _get_image_url(image_block)
        n          == counter + 1
        ext        == _get_extension(url)
        filename   == "image_" \o Pad3(n) \o ext
        local_path == images_dir \o "/" \o filename
        image_type == image_block.type
        got        == _download_image(id, url, local_path, ok)
        caption    == _extract_plain_text(image_block.caption)
    IN  IF url = "" THEN Effect("", counter, <<>>, <<>>)
        ELSE IF got.ok
        THEN Effect(IF caption # "" THEN "![" \o caption \o "](" \o local_path \o ")"
                    ELSE "![](" \o local_path \o ")",
                    n,
                    <<[original_url |-> url, local_path |-> local_path,
                       type |-> image_type]>>,
                    got.io)
        ELSE Effect(IF caption # "" THEN "![" \o caption \o "](" \o url \o ")"
                    ELSE "![](" \o url \o ")",
                    n, <<>>, got.io)

----------------------------------------------------------------------------
(* Tables *)

\* the line of one table_row: its cells rendered, escaped and joined
TableRowLine(row) ==
    LET cells      == row.data.cells
        cell_texts == [k \in 1..Len(cells) |->
                         ReplaceAll(ReplaceAll(_rich_text_to_markdown(cells[k]),
                                               "|", "\\|"),
                                    "\n", "<br>")]
    IN  "| " \o Join(cell_texts, " | ") \o " |"

\* the separator appended after the row at index 0
TableSeparator(row) ==
    "| " \o Join([k \in 1..Len(row.data.cells) |-> "---"], " | ") \o " |"

RECURSIVE TableLoop(_, _)
\* md_rows as the loop of _table_to_markdown builds it from rows[i..]; i is
\* enumerate's index, counted here from 1
TableLoop(rows, i) ==
    IF i > Len(rows) THEN <<>>
    ELSE (IF rows[i].type # "table_row" THEN <<>>
          ELSE <<TableRowLine(rows[i])>>
               \o (IF i = 1 THEN <<TableSeparator(rows[i])>> ELSE <<>>))
         \o TableLoop(rows, i + 1)

\* _table_to_markdown once rows is fetched
TableText(rows) ==
    IF rows = <<>> THEN "<!-- Empty table -->" ELSE Join(TableLoop(rows, 1), "\n")

_table_to_markdown(pg, table_block) ==
    Effect(TableText(_get_all_blocks(pg, table_block.id)), 0, <<>>,
           <<[op |-> "list", id |-> table_block.id]>>)

----------------------------------------------------------------------------
(* Blocks *)

\* indent of _block_to_markdown
Indent(depth) == Repeat("  ", depth)

\* _block_to_markdown for every type but image and table: the string returned
BlockText(block, depth) ==
    LET t == block.type
        d == block.data
    IN  CASE t = "paragraph" -> _rich_text_to_markdown(d.rich_text)
          [] t = "heading_1" -> "# " \o _rich_text_to_markdown(d.rich_text)
          [] t = "heading_2" -> "## " \o _rich_text_to_markdown(d.rich_text)
          [] t = "heading_3" -> "### " \o _rich_text_to_markdown(d.rich_text)
          [] t = "bulleted_list_item" ->
               Indent(depth) \o "- " \o _rich_text_to_markdown(d.rich_text)
          [] t = "numbered_list_item" ->
               Indent(depth) \o "1. " \o _rich_text_to_markdown(d.rich_text)
          [] t = "to_do" ->
               Indent(depth) \o "- [" \o (IF d.checked THEN "x" ELSE " ") \o "] "
               \o _rich_text_to_markdown(d.rich_text)
          [] t = "quote" -> "> " \o _rich_text_to_markdown(d.rich_text)
          [] t = "code" ->
               Repeat(BACKTICK, 3) \o d.language \o "\n"
               \o _extract_plain_text(d.rich_text) \o "\n" \o Repeat(BACKTICK, 3)
          [] t = "equation" ->
               IF ~IsBlank(d.expression) THEN "$$\n" \o d.expression \o "\n$$" ELSE ""
          [] t = "bookmark" ->
               IF _extract_plain_text(d.caption) # ""
               THEN "[" \o _extract_plain_text(d.caption) \o "](" \o d.url \o ")"
               ELSE "[" \o d.url \o "](" \o d.url \o ")"
          [] t = "callout" ->
               "> " \o (IF d.icon_emoji # "" THEN d.icon_emoji \o " " ELSE "")
               \o _rich_text_to_markdown(d.rich_text)
          [] t = "divider" -> "---"
          [] OTHER -> ""

\* _block_to_markdown: the string returned and what the call did.  ok is how
\* the download of an image block ends; counter is self.image_counter.
_block_to_markdown(pg, block, images_dir, depth, counter, ok) ==
    IF block.type = "image"
    THEN _image_block_to_markdown(block.id, block.data, images_dir, counter, ok)
    ELSE IF block.type = "table"
    THEN [_table_to_markdown(pg, block) EXCEPT !.counter = counter]
    ELSE Effect(BlockText(block, depth), counter, <<>>, <<>>)

\* the mutant of ChildDepth: every block with children indents them
ChildDepthAlways(block_type, depth) == depth + 1

\* child_depth of _blocks_to_markdown
ChildDepth(block_type, depth) ==
    IF block_type \in {"bulleted_list_item", "numbered_list_item", "to_do"}
    THEN depth + 1 ELSE depth

----------------------------------------------------------------------------
(* _process_page and the traversal of _blocks_to_markdown *)

\* page.get("cover") of a page without cover
NoCover == [type |-> "none", external_url |-> "", file_url |-> "", caption |-> <<>>]

\* title of _process_page: the "title" property, else the "Name" property
PageTitle(pg) ==
    LET t == _extract_plain_text(pg.properties.title)
    IN  IF t # "" THEN t ELSE _extract_plain_text(pg.properties.Name)

\* slug of _process_page
PageSlug(pg) == _extract_plain_text(pg.properties.slug)

\* the mutant of ResetImages: the list object is emptied in place (images.clear())
ResetImagesInPlace(h, ref) == [heap |-> [h EXCEPT ![ref] = <<>>], images |-> ref]

\* self.images = []: a new list object is bound, the old one is left as it is
ResetImages(h, ref) == [heap |-> Append(h, <<>>), images |-> Len(h) + 1]

\* self.images.append(...) for each record of appended
AppendImages(h, ref, appended) == [h EXCEPT ![ref] = @ \o appended]

\* the files under output_dir after f.write(content) to path
WriteFile(fs, path, content) ==
    [q \in DOMAIN fs \cup {path} |-> IF q = path THEN content ELSE fs[q]]

RECURSIVE WriteDownloads(_, _)
\* the files after the downloads of io: a successful one writes the bytes
WriteDownloads(fs, io) ==
    IF io = <<>> THEN fs
    ELSE WriteDownloads(
           IF io[1].op = "download" /\ io[1].ok
           THEN WriteFile(fs, io[1].path, "bytes of " \o io[1].url)
           ELSE fs,
           Tail(io))

\* a fresh activation record of _blocks_to_markdown(blocks, images_dir, depth)
Frame(blocks, depth) == [blocks |-> blocks, i |-> 1, depth |-> depth, lines |-> <<>>]

Top(stk) == stk[Len(stk)]

\* if md: lines.append(md)
AddLine(frame, md) ==
    IF md # "" THEN [frame EXCEPT !.lines = Append(@, md)] ELSE frame

\* the for loop moves to the next block
Advance(frame) == [frame EXCEPT !.i = @ + 1]

\* the mutant of Descend: the children are put off until the enclosing calls
\* have dealt with the siblings
DescendLater(stk, frame, child) ==
    <<child>> \o SubSeq(stk, 1, Len(stk) - 1) \o <<Advance(frame)>>

\* the recursive call of _blocks_to_markdown on the children: frame, the caller's
\* activation, waits at its block below the new one
Descend(stk, frame, child) == SubSeq(stk, 1, Len(stk) - 1) \o <<frame, child>>

\* markdown of _process_page after the title and the cover are added
AssembleMarkdown(t, cover, rendered) ==
    LET m1 == IF t # "" THEN "# " \o t \o "\n\n" \o rendered ELSE rendered
    IN  IF cover # ""
        THEN ReplaceFirst(m1, "# " \o t \o "\n\n",
                          "# " \o t \o "\n\n![cover](" \o cover \o ")\n\n")
        ELSE m1

\* md_path of _process_page
MarkdownPath(slug) ==
    OutputDir \o "/" \o (IF slug # "" THEN slug ELSE "article") \o ".md"

\* cover_path of _process_page
CoverPath(cover_url) == ImagesDir \o "/cover" \o _get_extension(cover_url)

\* whether _process_page tries to download a cover for pg
HasCoverUrl(pg) == pg.cover # NoCover /\ _get_image_url(pg.cover) # ""

\* fetch_by_page_id up to the cover: client.pages.retrieve finds the page or
\* raises (main then exits), and _process_page resets the image tracking and
\* extracts the metadata
fetch_by_page_id ==
    /\ pc = "idle"
    /\ requests # <<>>
    /\ \E found \in BOOLEAN :
         IF found
         THEN LET fresh == ResetImages(heap, images)
              IN  /\ pc' = "cover"
                  /\ page' = Head(requests)
                  /\ requests' = Tail(requests)
                  /\ heap' = fresh.heap
                  /\ images' = fresh.images
                  /\ image_counter' = 0
                  /\ title' = PageTitle(Head(requests))
                  /\ cover_image' = ""
                  /\ stack' = <<>>
                  /\ body' = ""
                  /\ trace' = <<>>
                  /\ UNCHANGED <<files, docs>>
         ELSE /\ pc' = "failed"
              /\ UNCHANGED <<requests, page, images, heap, image_counter, title,
                             cover_image, stack, body, files, docs, trace>>
    /\ UNCHANGED <<unit, lister>>

\* _process_page, "Extract cover image": the cover is downloaded if the page
\* has one, and recorded if the download succeeds
DownloadCover ==
    /\ pc = "cover"
    /\ \E ok \in (IF HasCoverUrl(page) THEN BOOLEAN ELSE {FALSE}) :
         LET cover_url  == _get_image_url(page.cover)
             cover_path == CoverPath(cover_url)
             got        == _download_image(0, cover_url, cover_path, ok)
         IN  IF HasCoverUrl(page)
             THEN /\ trace' = trace \o got.io
                  /\ files' = WriteDownloads(files, got.io)
                  /\ cover_image' = IF got.ok THEN cover_path ELSE ""
                  /\ heap' = IF got.ok
                             THEN AppendImages(heap, images,
                                    <<[original_url |-> cover_url,
                                       local_path |-> cover_path,
                                       type |-> "cover"]>>)
                             ELSE heap
             ELSE UNCHANGED <<trace, files, cover_image, heap>>
    /\ pc' = "blocks"
    /\ UNCHANGED <<requests, page, images, image_counter, title, stack, body, docs>>
    /\ UNCHANGED <<unit, lister>>

\* _process_page, "Get page content blocks", and the entry of the outermost
\* _blocks_to_markdown
FetchBlocks ==
    /\ pc = "blocks"
    /\ stack' = <<Frame(_get_all_blocks(page, 0), 0)>>
    /\ trace' = Append(trace, [op |-> "list", id |-> 0])
    /\ pc' = "render"
    /\ UNCHANGED <<requests, page, images, heap, image_counter, title, cover_image,
                   body, files, docs>>
    /\ UNCHANGED <<unit, lister>>

\* one iteration of the for loop of _blocks_to_markdown up to the recursive
\* call: the block is rendered, and its children, if any, are fetched and entered
RenderBlock ==
    /\ pc = "render"
    /\ Top(stack).i <= Len(Top(stack).blocks)
    /\ LET f     == Top(stack)
           block == f.blocks[f.i]
       IN  \E ok \in (IF block.type = "image" /\ _get_image_url(block.data) # ""
                      THEN BOOLEAN ELSE {FALSE}) :
             LET r  == _block_to_markdown(page, block, ImagesDir, f.depth,
                                          image_counter, ok)
                 f1 == AddLine(f, r.md)
             IN  /\ image_counter' = r.counter
                 /\ heap' = AppendImages(heap, images, r.appended)
                 /\ files' = WriteDownloads(files, r.io)
                 /\ IF block.has_children
                    THEN /\ stack' = Descend(stack, f1,
                                       Frame(_get_all_blocks(page, block.id),
                                             ChildDepth(block.type, f.depth)))
                         /\ trace' = trace \o r.io
                                     \o <<[op |-> "list", id |-> block.id]>>
                    ELSE /\ stack' = [stack EXCEPT ![Len(stack)] = Advance(f1)]
                         /\ trace' = trace \o r.io
    /\ UNCHANGED <<requests, pc, page, images, title, cover_image, body, docs>>
    /\ UNCHANGED <<unit, lister>>

\* the return of _blocks_to_markdown: the lines are joined; the caller appends
\* them if they are not empty and goes on with its next block
EndBlocks ==
    /\ pc = "render"
    /\ Top(stack).i > Len(Top(stack).blocks)
    /\ LET child_md == Join(Top(stack).lines, "\n\n")
       IN  IF Len(stack) = 1
           THEN /\ body' = child_md
                /\ stack' = <<>>
                /\ pc' = "assemble"
           ELSE /\ stack' = SubSeq(stack, 1, Len(stack) - 2)
                            \o <<Advance(AddLine(stack[Len(stack) - 1], child_md))>>
                /\ UNCHANGED <<body, pc>>
    /\ UNCHANGED <<requests, page, images, heap, image_counter, title, cover_image,
                   files, docs, trace>>
    /\ UNCHANGED <<unit, lister>>

\* the end of _process_page: title and cover are added, the file is written
\* and the result is returned
Assemble ==
    /\ pc = "assemble"
    /\ LET markdown == AssembleMarkdown(title, cover_image, body)
           md_path  == MarkdownPath(PageSlug(page))
       IN  /\ files' = WriteFile(files, md_path, markdown)
           /\ docs' = Append(docs, [title         |-> title,
                                    slug          |-> PageSlug(page),
                                    markdown      |-> markdown,
                                    markdown_file |-> md_path,
                                    images        |-> images,
                                    cover_image   |-> cover_image])
    /\ pc' = "idle"
    /\ UNCHANGED <<requests, page, images, heap, image_counter, title, cover_image,
                   stack, body, trace>>
    /\ UNCHANGED <<unit, lister>>

Next ==
    \/ fetch_by_page_id
    \/ DownloadCover
    \/ FetchBlocks
    \/ RenderBlock
    \/ EndBlocks
    \/ Assemble

----------------------------------------------------------------------------
(* Initial states *)

\* the block trees of n nodes over kinds: node i hangs under the page (0) or
\* under an earlier node, and the children of a node are in the order of their ids
Trees(n, kinds) ==
    {[i \in 1..n |-> [parent |-> par[i], kind |-> kd[i]]] :
        par \in {q \in [1..n -> 0..(IF n = 0 THEN 0 ELSE n - 1)] :
                    \A i \in 1..n : q[i] < i},
        kd \in [1..n -> kinds]}

TreesUpTo(max, kinds) == UNION {Trees(n, kinds) : n \in 0..max}

ExternalCover ==
    [type |-> "external", external_url |-> "http://x/cover.jpeg", file_url |-> "",
     caption |-> <<>>]

Pages(titles, covers, trees) ==
    {[id         |-> 0,
      properties |-> [title |-> Plain(t), Name |-> <<>>, slug |-> <<>>],
      cover      |-> c,
      tree       |-> tr] : t \in titles, c \in covers, tr \in trees}

\* the state of a NotionArticleFetcher after __init__, about to serve reqs
InitFetcher(reqs) ==
    /\ requests = reqs
    /\ pc = "idle"
    /\ page = [id |-> 0,
               properties |-> [title |-> <<>>, Name |-> <<>>, slug |-> <<>>],
               cover |-> NoCover, tree |-> <<>>]
    /\ images = 1
    /\ heap = << <<>> >>
    /\ image_counter = 0
    /\ title = ""
    /\ cover_image = ""
    /\ stack = <<>>
    /\ body = ""
    /\ files = [q \in {} |-> ""]
    /\ docs = <<>>
    /\ trace = <<>>

NoUnit == [fn |-> "none", arg |-> <<>>, out |-> <<>>, done |-> TRUE]

NoLister == [st |-> [blocks |-> <<>>, cursor |-> 0, done |-> TRUE],
             sent |-> <<>>, got |-> <<>>]

\* one conversion of a page with images: paragraphs, images with and without
\* a URL, with or without a cover
ImagePages == Pages({"T"}, {NoCover, ExternalCover},
                    TreesUpTo(MaxBlocks, {"para", "img", "img_nourl"}))

Init ==
    /\ \E pg \in ImagePages : InitFetcher(<<pg>>)
    /\ unit = NoUnit
    /\ lister = NoLister

Spec == Init /\ [][Next]_vars

\* one conversion of a page whose body has headings without text, with or
\* without a title and a cover
HeadingPages == Pages({"", "T"}, {NoCover, ExternalCover},
                      TreesUpTo(MaxBlocks, {"h1_empty", "para"}))

InitAssemble ==
    /\ \E pg \in HeadingPages : InitFetcher(<<pg>>)
    /\ unit = NoUnit
    /\ lister = NoLister

SpecAssemble == InitAssemble /\ [][Next]_vars

\* one conversion of a page of nested list items and containers of other kinds
ListPages == Pages({""}, {NoCover},
                   TreesUpTo(MaxBlocks, {"bullet", "numbered", "todo", "quote"}))

InitDepth ==
    /\ \E pg \in ListPages : InitFetcher(<<pg>>)
    /\ unit = NoUnit
    /\ lister = NoLister

SpecDepth == InitDepth /\ [][Next]_vars

\* the sequences over S of 1..n elements
SeqsUpTo(S, n) == UNION {[1..k -> S] : k \in 1..n}

\* several conversions on one fetcher object
SessionPages == Pages({"T"}, {NoCover, ExternalCover},
                      TreesUpTo(MaxSessionBlocks, {"img_file"}))

InitSession ==
    /\ \E reqs \in SeqsUpTo(SessionPages, MaxConversions) : InitFetcher(reqs)
    /\ unit = NoUnit
    /\ lister = NoLister

SpecSession == InitSession /\ [][Next]_vars

----------------------------------------------------------------------------
(* _rich_text_to_markdown on one span *)

Spans ==
    {[type |-> "text", plain_text |-> t, annotations |-> a, href |-> h,
      expression |-> ""] :
        t \in {"", "t", "two words"},
        a \in [bold : BOOLEAN, italic : BOOLEAN, strikethrough : BOOLEAN,
               underline : BOOLEAN, code : BOOLEAN],
        h \in {"", "http://h"}}

InitRich ==
    /\ InitFetcher(<<>>)
    /\ \E item \in Spans : unit = [fn |-> "rich", arg |-> <<item>>, out |-> "",
                                   done |-> FALSE]
    /\ lister = NoLister

\* the call _rich_text_to_markdown(arg)
RenderRich ==
    /\ unit.fn = "rich"
    /\ ~unit.done
    /\ unit' = [unit EXCEPT !.out = _rich_text_to_markdown(unit.arg), !.done = TRUE]
    /\ UNCHANGED convVars
    /\ UNCHANGED lister

NextRich == RenderRich

SpecRich == InitRich /\ [][NextRich]_vars

----------------------------------------------------------------------------
(* _table_to_markdown on the fetched children of a table *)

\* the k-th fetched child of a table: a table_row of n cells, or for n = -1 a
\* child of another kind
TableChild(k, n) ==
    IF n < 0
    THEN [id |-> k, type |-> "paragraph", has_children |-> FALSE,
          data |-> [rich_text |-> Plain("x")]]
    ELSE [id |-> k, type |-> "table_row", has_children |-> FALSE,
          data |-> [cells |-> [j \in 1..n |->
                                 Plain("r" \o ToString(k) \o "|c" \o ToString(j))]]]

TableInputs ==
    UNION {{[k \in 1..len |-> TableChild(k, shape[k])] :
               shape \in [1..len -> -1..MaxCells]} : len \in 0..MaxRows}

InitTable ==
    /\ InitFetcher(<<>>)
    /\ \E rows \in TableInputs : unit = [fn |-> "table", arg |-> rows, out |-> "",
                                         done |-> FALSE]
    /\ lister = NoLister

\* the call _table_to_markdown(table_block) whose children listing returns arg
RenderTable ==
    /\ unit.fn = "table"
    /\ ~unit.done
    /\ unit' = [unit EXCEPT !.out = TableText(unit.arg), !.done = TRUE]
    /\ UNCHANGED convVars
    /\ UNCHANGED lister

NextTable == RenderTable

SpecTable == InitTable /\ [][NextTable]_vars

----------------------------------------------------------------------------
(* _get_all_blocks against a server that answers as it likes *)

\* the responses of client.blocks.children.list: results are block ids here
Responses ==
    [results : {<<>>, <<1>>, <<2>>, <<1, 2>>}, has_more : BOOLEAN,
     next_cursor : 0..2]

InitList ==
    /\ InitFetcher(<<>>)
    /\ unit = NoUnit
    /\ lister = [st |-> [blocks |-> <<>>, cursor |-> 0, done |-> FALSE],
                 sent |-> <<>>, got |-> <<>>]

\* one iteration of the while loop of _get_all_blocks: the request with the
\* current cursor, the server's response, and ListStep on it
ListRequest ==
    /\ ~lister.st.done
    /\ Len(lister.sent) < MaxRequests
    /\ \E response \in Responses :
         lister' = [st   |-> ListStep(lister.st, response),
                    sent |-> Append(lister.sent, lister.st.cursor),
                    got  |-> Append(lister.got, response)]
    /\ UNCHANGED convVars
    /\ UNCHANGED unit

NextList == ListRequest

SpecList == InitList /\ [][NextList]_vars

----------------------------------------------------------------------------
(* What the properties speak of *)

RECURSIVE PreOrderOf(_, _)
\* the blocks under ids, and ids themselves, in document (depth-first) order
PreOrderOf(pg, ids) ==
    IF ids = <<>> THEN <<>>
    ELSE <<ids[1]>> \o PreOrderOf(pg, ChildIdsFrom(pg, ids[1], 1))
         \o PreOrderOf(pg, Tail(ids))

\* the ids of all blocks of a page in document order
DocumentOrder(pg) == PreOrderOf(pg, ChildIdsFrom(pg, 0, 1))

\* the image blocks of a page in document order
ImageBlocks(pg) ==
    LET IsImage(id) == BlockOf(pg, id).type = "image"
    IN  SelectSeq(DocumentOrder(pg), IsImage)

\* the image blocks whose payload yields a URL, in document order
ImageBlocksWithUrl(pg) ==
    LET HasUrl(id) == /\ BlockOf(pg, id).type = "image"
                      /\ _get_image_url(BlockOf(pg, id).data) # ""
    IN  SelectSeq(DocumentOrder(pg), HasUrl)

\* the position of x in the sequence s (0 when absent)
IndexIn(s, x) ==
    IF \E k \in 1..Len(s) : s[k] = x THEN CHOOSE k \in 1..Len(s) : s[k] = x ELSE 0

\* the downloads of inline images of the current conversion, in the order made
InlineDownloads ==
    LET IsInline(e) == e.op = "download" /\ e.id # 0
    IN  SelectSeq(trace, IsInline)

\* the downloads of the current conversion that succeeded, in the order made
GoodDownloads ==
    LET IsGood(e) == e.op = "download" /\ e.ok
    IN  SelectSeq(trace, IsGood)

\* the session ledger: the list self.images is bound to
Ledger == heap[images]

\* a conversion has returned and nothing was started since
Finished == pc = "idle" /\ docs # <<>>

\* the dict the last conversion returned
LastDoc == docs[Len(docs)]

\* the file basename of the image with counter value n
ImageBasename(n) == "/image_" \o Pad3(n) \o "."

----------------------------------------------------------------------------
(* C1 *)

\* C1, as stated: every image block that is given a counter value gets its rank
\* among all the image blocks of the document, whatever its payload.
C1_NthImageBlockGetsN ==
    \A k \in 1..Len(InlineDownloads) :
        Contains(InlineDownloads[k].path,
                 ImageBasename(IndexIn(ImageBlocks(page), InlineDownloads[k].id)))

\* C1, amended: the image blocks whose payload yields a URL are numbered 1, 2,
\* ... in document order, one counter value each, whether or not the download
\* succeeds; an image block without a URL takes no counter value.
C1_NthImageWithUrlGetsN ==
    LET d == InlineDownloads
        w == ImageBlocksWithUrl(page)
    IN  /\ Len(d) <= Len(w)
        /\ \A k \in 1..Len(d) :
              /\ d[k].id = w[k]
              /\ Contains(d[k].path, ImageBasename(k))
        /\ image_counter = Len(d)
        /\ (pc = "assemble" \/ Finished) => Len(d) = Len(w)

\* a finished conversion in which an image without URL came first, then an image
\* whose download failed, then an image whose download succeeded
C1_Witness ==
    /\ Finished
    /\ Len(InlineDownloads) = 2
    /\ ~InlineDownloads[1].ok
    /\ InlineDownloads[2].ok
    /\ Len(ImageBlocks(page)) = 3
    /\ ImageBlocks(page)[1] \notin {InlineDownloads[1].id, InlineDownloads[2].id}

----------------------------------------------------------------------------
(* C2 *)

\* C2: a failed download of an inline image does not abort the conversion: it
\* goes on, the Markdown file is written with every paragraph rendered, the
\* failed image is referenced by its remote URL and has no ledger entry, and the
\* ledger has exactly one entry per successful download.
C2_FailedImageAbsorbed ==
    LET d    == InlineDownloads
        good == GoodDownloads
    IN  /\ (\E k \in 1..Len(d) : ~d[k].ok) =>
              /\ pc # "failed"
              /\ (pc = "render" => stack # <<>>)
        /\ Len(Ledger) = Len(good)
        /\ \A k \in 1..Len(good) :
              /\ Ledger[k].original_url = good[k].url
              /\ Ledger[k].local_path = good[k].path
        /\ Finished =>
              /\ MarkdownPath(LastDoc.slug) \in DOMAIN files
              /\ files[MarkdownPath(LastDoc.slug)] = LastDoc.markdown
              /\ \A k \in 1..Len(d) :
                    IF d[k].ok
                    THEN /\ Contains(LastDoc.markdown, "](" \o d[k].path \o ")")
                         /\ d[k].path \in DOMAIN files
                    ELSE /\ Contains(LastDoc.markdown, "![](" \o d[k].url \o ")")
                         /\ ~Contains(LastDoc.markdown, d[k].path)
                         /\ \A j \in 1..Len(heap[LastDoc.images]) :
                               heap[LastDoc.images][j].original_url # d[k].url
              /\ \A id \in 1..Len(page.tree) :
                    page.tree[id].kind = "para" =>
                       Contains(LastDoc.markdown, "p" \o ToString(id))

\* a finished conversion whose first image failed to download and was followed
\* by a paragraph and by an image that was downloaded
C2_Witness ==
    /\ Finished
    /\ Len(InlineDownloads) = 2
    /\ ~InlineDownloads[1].ok
    /\ InlineDownloads[2].ok
    /\ \E id \in 1..Len(page.tree) :
          /\ page.tree[id].kind = "para"
          /\ id > InlineDownloads[1].id
          /\ page.tree[id].parent = 0
          /\ page.tree[InlineDownloads[1].id].parent = 0

----------------------------------------------------------------------------
(* C3 *)

\* C3: when the download of the cover fails, the final Markdown references the
\* cover's remote URL.
C3_FailedCoverFallsBackToUrl ==
    Finished =>
       \A k \in 1..Len(trace) :
          (trace[k].op = "download" /\ trace[k].id = 0 /\ ~trace[k].ok) =>
             Contains(LastDoc.markdown, trace[k].url)

----------------------------------------------------------------------------
(* C7 *)

RECURSIVE ExpectedIO(_, _)
\* the I/O of rendering the blocks ids and what is under them, in depth-first
\* source order: a block's own, then its children's, then its next sibling's
ExpectedIO(pg, ids) ==
    IF ids = <<>> THEN <<>>
    ELSE LET b == BlockOf(pg, ids[1])
         IN  (IF b.type = "image" /\ _get_image_url(b.data) # ""
              THEN <<[op |-> "download", id |-> b.id]>> ELSE <<>>)
             \o (IF b.has_children
                 THEN <<[op |-> "list", id |-> b.id]>>
                      \o ExpectedIO(pg, ChildIdsFrom(pg, b.id, 1))
                 ELSE <<>>)
             \o ExpectedIO(pg, Tail(ids))

\* the I/O of a whole conversion: the cover, then the body
ExpectedConversionIO(pg) ==
    (IF HasCoverUrl(pg) THEN <<[op |-> "download", id |-> 0]>> ELSE <<>>)
    \o <<[op |-> "list", id |-> 0]>>
    \o ExpectedIO(pg, ChildIdsFrom(pg, 0, 1))

\* C7: the side effects of a conversion happen in depth-first source order, the
\* cover first; the ledger lists the cover first, if materialized, and then the
\* inline images in the order of their counter values.
C7_DepthFirstSideEffects ==
    LET done     == [k \in 1..Len(trace) |-> [op |-> trace[k].op, id |-> trace[k].id]]
        expected == ExpectedConversionIO(page)
        good     == GoodDownloads
    IN  /\ Len(done) <= Len(expected)
        /\ done = SubSeq(expected, 1, Len(done))
        /\ (pc = "assemble" \/ Finished) => done = expected
        /\ Len(Ledger) = Len(good)
        /\ \A k \in 1..Len(good) :
              /\ Ledger[k].local_path = good[k].path
              /\ (Ledger[k].type = "cover") = (good[k].id = 0)
              /\ good[k].id = 0 => k = 1
        /\ \A j, k \in 1..Len(InlineDownloads) :
              j < k => /\ Contains(InlineDownloads[j].path, ImageBasename(j))
                       /\ Contains(InlineDownloads[k].path, ImageBasename(k))

\* a finished conversion with a materialized cover, an image inside a block's
\* children and a later image at the top level, both downloaded
C7_Witness ==
    /\ Finished
    /\ Len(Ledger) = 3
    /\ Ledger[1].type = "cover"
    /\ \E a, b \in 1..Len(page.tree) :
          /\ page.tree[a].parent # 0
          /\ page.tree[b].parent = 0
          /\ b < a
          /\ InlineDownloads[1].id = a
          /\ InlineDownloads[2].id = b

----------------------------------------------------------------------------
(* C4 *)

\* the markup _process_page inserts for the cover of pg
CoverMarkup(pg) == "![cover](" \o CoverPath(_get_image_url(pg.cover)) \o ")"

\* C4: the cover markup is in the document if and only if the title is not
\* empty and the cover was materialized, and then once, right after the title
\* line and its blank line; without a title it is nowhere, whatever the body.
C4_CoverOnlyAfterTitle ==
    Finished =>
       LET n == Occurrences(LastDoc.markdown, CoverMarkup(page))
       IN  IF LastDoc.title # "" /\ LastDoc.cover_image # ""
           THEN /\ n = 1
                /\ StartsWithAt(LastDoc.markdown,
                                "# " \o LastDoc.title \o "\n\n" \o CoverMarkup(page), 1)
           ELSE n = 0

----------------------------------------------------------------------------
(* C5 *)

\* the table_row children among the fetched children of a table
TableRowsOf(rows) ==
    LET IsRow(r) == r.type = "table_row"
    IN  SelectSeq(rows, IsRow)

\* C5: a table with at least one table_row among its fetched children renders
\* as its rows in order, children of other kinds skipped, with one separator
\* right after the first emitted row, as wide as that row.
C5_SeparatorAfterFirstRow ==
    (unit.fn = "table" /\ unit.done /\ TableRowsOf(unit.arg) # <<>>) =>
       LET r == TableRowsOf(unit.arg)
       IN  unit.out =
              Join(<<TableRowLine(r[1]), TableSeparator(r[1])>>
                   \o [k \in 1..(Len(r) - 1) |-> TableRowLine(r[k + 1])], "\n")

----------------------------------------------------------------------------
(* C6 *)

RECURSIVE ListAncestors(_, _)
\* the number of ancestors of block id that are list items
ListAncestors(pg, id) ==
    LET up == pg.tree[id].parent
    IN  IF up = 0 THEN 0
        ELSE (IF pg.tree[up].kind \in {"bullet", "numbered", "todo"} THEN 1 ELSE 0)
             + ListAncestors(pg, up)

RECURSIVE Spaces(_)
Spaces(n) == IF n = 0 THEN "" ELSE " " \o Spaces(n - 1)

\* the line of block id: a list item is indented by two spaces per list
\* ancestor, a block of another kind is not indented
LineOf(pg, id) ==
    LET k    == pg.tree[id].kind
        text == _extract_plain_text(Payload(k, id).data.rich_text)
    IN  CASE k = "bullet"   -> Spaces(2 * ListAncestors(pg, id)) \o "- " \o text
          [] k = "numbered" -> Spaces(2 * ListAncestors(pg, id)) \o "1. " \o text
          [] k = "todo"     -> Spaces(2 * ListAncestors(pg, id)) \o "- [x] " \o text
          [] k = "quote"    -> "> " \o text

\* C6: every block is rendered at a depth equal to the number of its list-item
\* ancestors; a list item's line starts with two spaces per depth level, and a
\* line of any other kind is not indented.
C6_DepthIsListAncestors ==
    /\ \A k \in 1..Len(stack) :
          \A j \in 1..Len(stack[k].blocks) :
             stack[k].depth = ListAncestors(page, stack[k].blocks[j].id)
    /\ (pc = "assemble" \/ Finished) =>
          LET order == DocumentOrder(page)
          IN  body = Join([k \in 1..Len(order) |-> LineOf(page, order[k])], "\n\n")

\* a checked to-do under a top-level bulleted item, rendered with two spaces;
\* and a list item two list levels down under a quote
C6_Witness ==
    \/ /\ Finished
       /\ page.tree = <<[parent |-> 0, kind |-> "bullet"],
                        [parent |-> 1, kind |-> "todo"]>>
       /\ body = "- b1\n\n  - [x] Ship it"
    \/ /\ Finished
       /\ Len(page.tree) = 3
       /\ page.tree[1].kind = "quote"
       /\ Contains(body, "\n\n  - b3")

----------------------------------------------------------------------------
(* C8 *)

\* the conversion in progress, or just finished, behaves as on a fresh fetcher:
\* only its own downloads are in the ledger and in the counter
FreshSession ==
    /\ pc = "cover" => (Ledger = <<>> /\ image_counter = 0)
    /\ pc \notin {"failed"} =>
          /\ image_counter = Len(InlineDownloads)
          /\ Len(Ledger) = Len(GoodDownloads)
          /\ \A k \in 1..Len(GoodDownloads) :
                Ledger[k].local_path = GoodDownloads[k].path
          /\ \A k \in 1..Len(InlineDownloads) :
                Contains(InlineDownloads[k].path, ImageBasename(k))

\* the resource lists of the documents returned so far are left as they are
ReturnedListsKept ==
    \A k \in 1..Len(docs) : heap'[docs[k].images] = heap[docs[k].images]

\* C8: every conversion starts with an empty ledger and the counter at 0, so it
\* numbers and records as on a fresh session; and the resource list of a
\* document already returned is never changed by a later conversion.
C8_SessionResetPerDocument == [](FreshSession) /\ [][ReturnedListsKept]_vars

\* a second conversion has finished on the same fetcher, and both documents
\* have a resource list that is not empty
C8_Witness ==
    /\ Finished
    /\ Len(docs) = 2
    /\ Len(heap[docs[1].images]) = 2
    /\ Len(heap[docs[2].images]) = 2
    /\ image_counter = 1

----------------------------------------------------------------------------
(* C9 *)

RECURSIVE ConcatResults(_)
ConcatResults(responses) ==
    IF responses = <<>> THEN <<>>
    ELSE responses[1].results \o ConcatResults(Tail(responses))

\* C9: the first request carries no cursor and every later one the next_cursor
\* of the response before it; the loop goes on exactly while responses say
\* has_more, and ends on the first that does not; the list built is all the
\* pages' results in the order received.
C9_PaginationLoop ==
    LET n == Len(lister.sent)
    IN  /\ Len(lister.got) = n
        /\ n >= 1 => lister.sent[1] = 0
        /\ \A k \in 2..n : lister.sent[k] = lister.got[k - 1].next_cursor
        /\ \A k \in 1..(n - 1) : lister.got[k].has_more
        /\ lister.st.done = (n >= 1 /\ ~lister.got[n].has_more)
        /\ lister.st.blocks = ConcatResults(lister.got)

\* the loop has ended on its third response, having followed two cursors
C9_Witness ==
    /\ lister.st.done
    /\ Len(lister.sent) = 3
    /\ lister.sent = <<0, 2, 1>>
    /\ lister.st.blocks = <<1, 2, 1, 2>>

----------------------------------------------------------------------------
(* C10 *)

\* the wrappers of a span, as [open, close] pairs, in the order the code nests
\* them, outermost first
WrappersOutermostFirst(item) ==
    (IF item.href # ""
     THEN <<[open |-> "[", close |-> "](" \o item.href \o ")"]>> ELSE <<>>)
    \o (IF item.annotations.code
        THEN <<[open |-> BACKTICK, close |-> BACKTICK]>> ELSE <<>>)
    \o (IF item.annotations.underline
        THEN <<[open |-> "<u>", close |-> "</u>"]>> ELSE <<>>)
    \o (IF item.annotations.strikethrough
        THEN <<[open |-> "~~", close |-> "~~"]>> ELSE <<>>)
    \o (IF item.annotations.italic
        THEN <<[open |-> "*", close |-> "*"]>> ELSE <<>>)
    \o (IF item.annotations.bold
        THEN <<[open |-> "**", close |-> "**"]>> ELSE <<>>)

\* the same wrappers in the order the claim gives: bold outermost, link innermost
WrappersBoldFirst(item) ==
    LET w == WrappersOutermostFirst(item)
    IN  [k \in 1..Len(w) |-> w[Len(w) + 1 - k]]

RECURSIVE Unwrap(_, _)
\* s with the wrappers taken off from the outside in; "?" if s does not start
\* and end with the wrapper expected next
Unwrap(s, wrappers) ==
    IF wrappers = <<>> THEN s
    ELSE LET o == wrappers[1].open
             c == wrappers[1].close
         IN  IF /\ Len(s) >= Len(o) + Len(c)
                /\ SubSeq(s, 1, Len(o)) = o
                /\ SubSeq(s, Len(s) - Len(c) + 1, Len(s)) = c
             THEN Unwrap(SubSeq(s, Len(o) + 1, Len(s) - Len(c)), Tail(wrappers))
             ELSE "?"

\* C10, as stated: taking the wrappers off a rendered span from the outside in,
\* bold comes off first and the link last.
C10_BoldOutermostLinkInnermost ==
    (unit.fn = "rich" /\ unit.done /\ unit.arg[1].plain_text # "") =>
       Unwrap(unit.out, WrappersBoldFirst(unit.arg[1])) = unit.arg[1].plain_text

\* C10, amended: the wrappers nest in the fixed order link, inline code,
\* underline, strikethrough, italic, bold, outermost to innermost.
C10_LinkOutermostBoldInnermost ==
    (unit.fn = "rich" /\ unit.done /\ unit.arg[1].plain_text # "") =>
       Unwrap(unit.out, WrappersOutermostFirst(unit.arg[1])) = unit.arg[1].plain_text

\* a span with every style and a link has been rendered
C10_Witness ==
    /\ unit.fn = "rich"
    /\ unit.done
    /\ unit.arg[1].plain_text = "two words"
    /\ unit.out = "[" \o BACKTICK \o "<u>~~***two words***~~</u>" \o BACKTICK
                  \o "](http://h)"

----------------------------------------------------------------------------
(* C11 *)

\* the step is one iteration of the for loop of _blocks_to_markdown
RendersABlock == pc = "render" /\ Top(stack).i <= Len(Top(stack).blocks)

\* the block that iteration renders
BlockRendered == Top(stack).blocks[Top(stack).i]

\* the string _block_to_markdown returned in that iteration: the line the
\* activation gained, or "" if it gained none
TextRendered ==
    LET before == Top(stack).lines
        after  == stack'[Len(stack)].lines
    IN  IF Len(after) > Len(before) THEN after[Len(after)] ELSE ""

\* whether that iteration downloaded an image
DownloadedInStep ==
    /\ Len(heap'[images']) > Len(heap[images])

TextByPayloadAndRank(pg, block, downloaded) ==
    LET url     == _get_image_url(block.data)
        caption == _extract_plain_text(block.data.caption)
        rank    == IndexIn(ImageBlocksWithUrl(pg), block.id)
    IN  IF block.type = "paragraph" THEN _extract_plain_text(block.data.rich_text)
        ELSE IF block.type # "image" \/ url = "" THEN ""
        ELSE IF downloaded
        THEN "![" \o caption \o "](" \o OutputDir \o "/images/image_" \o Pad3(rank)
             \o _get_extension(url) \o ")"
        ELSE "![" \o caption \o "](" \o url \o ")"

====
